---- MODULE Spec2Model ----
(***************************************************************************)
(* A model of probe.py: the network probe that resolves the default        *)
(* gateway, pings it, queries the collaborators, appends one row per       *)
(* successful cycle to the sqlite table new_probe_logs of data.db and      *)
(* mirrors the latest row into new_probe_logs.csv.                         *)
(*                                                                         *)
(* Representation.  An optional Python value is a sequence of length at    *)
(* most one: None is <<>> and a present value v is <<v>>.  A float is a    *)
(* rational in lowest terms, [n |-> numerator, d |-> denominator].  The    *)
(* wall clock is a tick count; strftime splits a reading into its date     *)
(* part and its time-of-day part.                                          *)
(***************************************************************************)
EXTENDS Integers, Sequences, FiniteSets, TLC

VARIABLES
    system,    \* platform.system() of the host
    fs,        \* the files: path -> content (NoFile when the path does not exist)
    pc,        \* where main() is; "off" before the first start
    loc,       \* main()'s local variables of the current iteration
    exp,       \* export_to_csv()'s locals between open() and the writes
    now,       \* the wall clock
    sigint,    \* the step just taken was a KeyboardInterrupt being raised
    cond,      \* the network conditions that agree with what this iteration's calls returned
    exc,       \* the exception that ended main(), "" if none
    cyc,       \* history: row counts of store and mirror when the iteration began
    sleepFor,  \* seconds of the time.sleep main() is in, 0 when it is not sleeping
    hist,      \* history: the data file before each of the last two initialisations in a row
    pin,       \* ping_router's inputs (probe batch specification)
    pout       \* ping_router's result (probe batch specification)

vars == <<system, fs, pc, loc, exp, now, sigint, cond, exc, cyc, sleepFor, hist, pin, pout>>

----------------------------------------------------------------------------
\* Bounds of the model.
MaxRows == 2
MaxTime == 1
MaxCount == 4
TicksPerDay == 2

\* Program constants.
DefaultCount == 10
BackoffSeconds == 50
IntervalSeconds == 300

DB_FILE == "data.db"
BACKUP_FILE == "data_backup.db"
CSV_FILE == "new_probe_logs.csv"
Paths == {DB_FILE, BACKUP_FILE, CSV_FILE}

None == <<>>
Some(v) == <<v>>

----------------------------------------------------------------------------
\* Arithmetic of Python floats, as rationals.

RECURSIVE Gcd(_, _)
Gcd(a, b) == IF b = 0 THEN a ELSE Gcd(b, a % b)

Abs(a) == IF a < 0 THEN -a ELSE a

\* The quotient a / b (b > 0) in lowest terms.
Rat(a, b) ==
    LET g == Gcd(Abs(a), b)
    IN  IF g = 0 THEN [n |-> 0, d |-> 1] ELSE [n |-> a \div g, d |-> b \div g]

\* a / b (a >= 0, b > 0) rounded to the nearest integer, ties to even: round().
RoundDiv(a, b) ==
    LET q == a \div b
        r == a % b
    IN  IF 2 * r < b THEN q
        ELSE IF 2 * r > b THEN q + 1
        ELSE IF q % 2 = 0 THEN q ELSE q + 1

RECURSIVE SumSeq(_)
SumSeq(s) == IF s = <<>> THEN 0 ELSE Head(s) + SumSeq(Tail(s))

RECURSIVE SumSq(_)
SumSq(s) == IF s = <<>> THEN 0 ELSE Head(s) * Head(s) + SumSq(Tail(s))

\* round(statistics.mean(times), 2)
MeanRounded(times) == Rat(RoundDiv(100 * SumSeq(times), Len(times)), 100)

\* round(statistics.stdev(times), 2): the sample variance is A / B with
\* A = k * sum(x^2) - sum(x)^2 and B = k * (k - 1); j hundredths is the rounding
\* of 100 * sqrt(A / B) when (2j - 1)^2 * B <= 40000 * A < (2j + 1)^2 * B.
StdevRounded(times) ==
    LET k == Len(times)
        A == k * SumSq(times) - SumSeq(times) * SumSeq(times)
        B == k * (k - 1)
        j == CHOOSE h \in 0 .. 100000 :
                 /\ (h = 0 \/ (2 * h - 1) * (2 * h - 1) * B <= 40000 * A)
                 /\ 40000 * A < (2 * h + 1) * (2 * h + 1) * B
    IN  Rat(j, 100)

----------------------------------------------------------------------------
\* ping_router(ip, count): `times` are the round-trip times the regular
\* expression finds in ping's output, `err` is check_output raising (a
\* non-zero exit status, no ping binary, ...).  count = 0 divides by zero
\* inside the try block, which is caught like any other error.

PacketLoss_swapped(count, k) == Rat(100 * k, count)

PacketLoss(count, k) == Rat(100 * (count - k), count)

ping_router(count, times, err) ==
    IF err \/ count = 0
    THEN [latency |-> None, packet_loss |-> None, jitter |-> None]
    ELSE [latency     |-> IF times # <<>> THEN Some(MeanRounded(times)) ELSE None,
          jitter      |-> IF Len(times) > 1 THEN Some(StdevRounded(times))
                                            ELSE Some(Rat(0, 1)),
          packet_loss |-> Some(PacketLoss(count, Len(times)))]

----------------------------------------------------------------------------
\* Text forms: str(int), repr(float), strftime.

Digits == <<"0", "1", "2", "3", "4", "5", "6", "7", "8", "9">>

RECURSIVE IntToStr(_)
IntToStr(i) ==
    IF i < 0 THEN "-" \o IntToStr(-i)
    ELSE IF i < 10 THEN Digits[i + 1]
    ELSE IntToStr(i \div 10) \o Digits[(i % 10) + 1]

\* repr() of a float with at most two decimals (every float main() stores is the
\* result of round(x, 2) or, with count = 10, a multiple of ten).
FloatRepr(q) ==
    LET h    == q.n * (100 \div q.d)
        frac == h % 100
    IN  IntToStr(h \div 100) \o "." \o
        (IF frac % 10 = 0 THEN Digits[(frac \div 10) + 1]
         ELSE Digits[(frac \div 10) + 1] \o Digits[(frac % 10) + 1])

\* strftime("%Y-%m-%d") and strftime("%H:%M:%S") of a clock reading.
DateStr(t) == IntToStr(t \div TicksPerDay)
TimeStr(t) == IntToStr(t % TicksPerDay)

\* get_current_timestamp(): strftime("%Y-%m-%d %H:%M:%S") of the clock.
get_current_timestamp(t) == DateStr(t) \o " " \o TimeStr(t)

----------------------------------------------------------------------------
\* Files.

NoFile == [kind |-> "none"]
Exists(f, path) == f[path] # NoFile

\* What sqlite3.connect creates at a path that does not exist yet.
EmptyDb == [kind |-> "db", table |-> FALSE, rows |-> <<>>, seq |-> 0]

\* shutil.copy(DB_FILE, BACKUP_FILE) when DB_FILE exists.
BackupCopy_skipped(f) == f

BackupCopy(f) ==
    IF Exists(f, DB_FILE) THEN [f EXCEPT ![BACKUP_FILE] = f[DB_FILE]] ELSE f

\* CREATE TABLE IF NOT EXISTS new_probe_logs (... id INTEGER PRIMARY KEY
\* AUTOINCREMENT ...) on the connection sqlite3.connect(DB_FILE) opened.
EnsureTable_recreate(f) == [f EXCEPT ![DB_FILE] = [EmptyDb EXCEPT !.table = TRUE]]

EnsureTable(f) ==
    LET d == IF Exists(f, DB_FILE) THEN f[DB_FILE] ELSE EmptyDb
    IN  [f EXCEPT ![DB_FILE] = [d EXCEPT !.table = TRUE]]

initialize_database(f) == EnsureTable(BackupCopy(f))

\* The id AUTOINCREMENT gives the next row: one more than the largest id the
\* table ever held (sqlite_sequence), never a reused one.
NextId(d) == d.seq + 1

\* log_to_db(...): the INSERT and its commit.  date and time are read from the
\* clock inside log_to_db; the timestamp parameter is not used.
log_to_db(f, l, interface, clock) ==
    LET d   == f[DB_FILE]
        row == [id              |-> NextId(d),
                date            |-> DateStr(clock),
                time            |-> TimeStr(clock),
                router_ip       |-> l.router_ip,
                router_mac      |-> l.router_id,
                interface       |-> interface,
                latency         |-> l.latency,
                jitter          |-> l.jitter,
                packet_loss     |-> l.packet_loss,
                signal_strength |-> l.signal_strength,
                download_speed  |-> l.download_speed,
                upload_speed    |-> l.upload_speed,
                isp_name        |-> l.isp_name,
                gw_reach        |-> l.gw_reach,
                interface_ip    |-> l.interface_ip]
    IN  [f EXCEPT ![DB_FILE] = [d EXCEPT !.rows = Append(d.rows, row),
                                         !.seq  = row.id]]

\* SELECT * FROM new_probe_logs ORDER BY id DESC LIMIT 1; fetchone().
RECURSIVE MaxIdRow(_)
MaxIdRow(rows) ==
    IF Len(rows) = 1 THEN rows[1]
    ELSE LET m == MaxIdRow(Tail(rows))
         IN  IF rows[1].id > m.id THEN rows[1] ELSE m

LatestRow_first(d) == IF d.rows = <<>> THEN None ELSE Some(d.rows[1])

LatestRow(d) == IF d.rows = <<>> THEN None ELSE Some(MaxIdRow(d.rows))

\* csv.writer's cell for a value: None is written as the empty string.
OptFloatCell(v) == IF v = None THEN "" ELSE FloatRepr(v[1])

\* writer.writerow(row) for a row of new_probe_logs, in column order.
CsvRow(r) ==
    << IntToStr(r.id), r.date, r.time, r.router_ip, r.router_mac, r.interface,
       OptFloatCell(r.latency), OptFloatCell(r.jitter), OptFloatCell(r.packet_loss),
       r.signal_strength, OptFloatCell(r.download_speed),
       OptFloatCell(r.upload_speed), r.isp_name, r.gw_reach, r.interface_ip >>

CsvHeader ==
    << "ID", "Date", "Time", "Router IP", "Router MAC", "Interface", "Latency",
       "Jitter", "Packet Loss", "Signal Strength", "Download Speed",
       "Upload Speed", "ISP Name", "Gateway Reachability", "Interface IP" >>

\* open(csv_path, mode='a'): creates the file when it does not exist.
CsvOpen(f) ==
    IF Exists(f, CSV_FILE) THEN f
    ELSE [f EXCEPT ![CSV_FILE] = [kind |-> "csv", lines |-> <<>>]]

\* The writes of export_to_csv's with-block, flushed when the block closes the
\* file: the header when the file did not exist before open(), then the row.
HeaderDue(file_exists) == ~file_exists

CsvWrite(f, file_exists, row) ==
    LET c  == f[CSV_FILE]
        l1 == IF HeaderDue(file_exists) THEN Append(c.lines, CsvHeader) ELSE c.lines
        l2 == IF row # None THEN Append(l1, CsvRow(row[1])) ELSE l1
    IN  [f EXCEPT ![CSV_FILE] = [c EXCEPT !.lines = l2]]

----------------------------------------------------------------------------
\* The collaborators.  Each takes the outcome of its external call (a process,
\* a socket, an HTTP request) as a parameter and returns what the Python
\* function returns.

GatewayIp == "192.168.1.1"
GatewayMac == "aa:bb:cc:dd:ee:ff"
LocalIp == "192.168.1.23"
IfaceName == "eth0"
SignalPct == "72%"
IspOrg == "AS64500 Example ISP"
Download == Rat(9350, 100)
Upload == Rat(1120, 100)

Systems == {"Windows", "Linux"}

\* get_default_gateway_ip() as main() calls it: the second definition of that
\* name, after its psutil block.  r1 is the outcome of ipconfig / `ip route`,
\* r2 the outcome of the `route -n` fallback: "match", "nomatch" or "error".
get_default_gateway_ip(sys, r1, r2) ==
    IF sys = "Windows"
    THEN IF r1 = "match" THEN Some(GatewayIp) ELSE None
    ELSE IF sys \in {"Linux", "Darwin"}
    THEN IF r1 = "match" THEN Some(GatewayIp)
         ELSE IF r1 = "error" /\ r2 = "match" THEN Some(GatewayIp)
         ELSE None
    ELSE None

get_router_ip(r) == IF r = "match" THEN GatewayIp ELSE "unknown"

\* get_router_mac(ip): arp is the outcome of `arp -a`: "entry" when the table
\* holds a line for the gateway with a hardware address.
get_router_mac(ip, arp) ==
    IF arp = "entry" /\ ip = GatewayIp THEN GatewayMac ELSE "unknown"

\* get_signal_strength(): o is "ok" (the output shows a Signal line), "nomatch"
\* (it shows none), "CalledProcessError" (non-zero exit) or "OtherError" (an
\* OSError or a UnicodeDecodeError of check_output(..., text=True)).  Only
\* subprocess.CalledProcessError is caught; any other exception leaves the
\* function.
get_signal_strength(o) ==
    IF o = "ok" THEN [raised |-> FALSE, value |-> SignalPct]
    ELSE IF o \in {"nomatch", "CalledProcessError"}
    THEN [raised |-> FALSE, value |-> "unknown"]
    ELSE [raised |-> TRUE, value |-> "unknown"]

get_speedtest(ok) ==
    IF ok THEN [download |-> Some(Download), upload |-> Some(Upload)]
    ELSE [download |-> None, upload |-> None]

\* get_isp_name(): o is "org" (status 200 with an org entry), "noorg", "status"
\* (another status code) or "exception".
get_isp_name(o) == IF o = "org" THEN IspOrg ELSE "unknown"

\* check_gateway_reachability(ip, count): a None ip makes check_output raise
\* TypeError inside the try block.
check_gateway_reachability(ip, count, received, err) ==
    IF ip = None \/ err \/ count = 0 THEN "unknown"
    ELSE IntToStr(RoundDiv(received * 100, count)) \o "%"

get_interface_ip(ok) == IF ok THEN LocalIp ELSE "unknown"

get_active_interface(ok) == IF ok THEN IfaceName ELSE "Unknown"

\* Line 297: `if latency is None`.
PingFailed_loss(l) == l.packet_loss = None

PingFailed(l) == l.latency = None

----------------------------------------------------------------------------
\* The environment of one iteration of main(): what each external call of the
\* iteration comes back with.

Healthy ==
    [route     |-> "match",      \* ipconfig / `ip route`
     fallback  |-> "match",      \* `route -n`
     arp       |-> "entry",      \* `arp -a`
     ping_err  |-> FALSE,        \* ping to the router exits non-zero
     replies   |-> <<20, 22, 21>>,
     signal    |-> "ok",         \* netsh wlan show interfaces
     speed     |-> TRUE,         \* speedtest
     isp       |-> "org",        \* ipinfo.io
     reach_err |-> FALSE,        \* ping to the gateway exits non-zero
     received  |-> 10,
     ifip      |-> TRUE,         \* the UDP socket of get_interface_ip
     iface     |-> TRUE,         \* the socket and psutil of get_active_interface
     store     |-> TRUE]         \* data.db can be written

\* Every call whose failure still lets the cycle be recorded fails.
Degraded ==
    [Healthy EXCEPT !.arp = "noentry", !.signal = "CalledProcessError",
                    !.speed = FALSE, !.isp = "exception", !.reach_err = TRUE,
                    !.ifip = FALSE, !.iface = FALSE]

Conditions ==
    { Healthy,
      Degraded,
      [Healthy EXCEPT !.route = "nomatch"],
      [Healthy EXCEPT !.route = "error"],
      [Healthy EXCEPT !.replies = <<>>],
      [Healthy EXCEPT !.ping_err = TRUE],
      [Healthy EXCEPT !.signal = "OtherError"],
      [Healthy EXCEPT !.store = FALSE] }

\* The conditions of S that agree with c on the fields a call has just read.
Agree(S, c, fields) == {d \in S : \A f \in fields : d[f] = c[f]}

\* Whether the ping of line 90 raises.  A ping that got no reply exits
\* non-zero on Linux; on Windows a batch answered only by "Destination host
\* unreachable" exits zero with no time= in its output.  A name that does not
\* resolve makes ping fail.
PingRaises(sys, ip, c) ==
    c.ping_err \/ (sys # "Windows" /\ c.replies = <<>>) \/ ip = "unknown"

\* The outcome of line 102.  netsh exists on Windows only: elsewhere the shell
\* exits 127 and check_output raises CalledProcessError.
SignalOutcome(sys, c) ==
    IF sys # "Windows" /\ c.signal \in {"ok", "nomatch"}
    THEN "CalledProcessError" ELSE c.signal

----------------------------------------------------------------------------
\* main()

LoopPcs ==
    {"gw_psutil", "gw_route", "timestamp", "router_ip", "router_mac", "ping",
     "signal", "speedtest", "isp", "gw_reach", "interface_ip", "check",
     "sleep", "log", "export", "export_write"}

NoLocals == <<>>

StoreRows(f) == IF Exists(f, DB_FILE) THEN f[DB_FILE].rows ELSE <<>>

MirrorLines(f) == IF Exists(f, CSV_FILE) THEN f[CSV_FILE].lines ELSE <<>>

DataLines(f) ==
    LET l == MirrorLines(f) IN Cardinality({i \in 1 .. Len(l) : l[i] # CsvHeader})

Snapshot(f) == [rows |-> Len(StoreRows(f)), lines |-> DataLines(f)]

NoHist == [before1 |-> NoFile, before2 |-> NoFile, inits |-> 0]

Init ==
    /\ system \in Systems
    /\ fs \in { [p \in Paths |-> IF p = DB_FILE THEN d ELSE NoFile] :
                  d \in {NoFile, EmptyDb} }
    /\ pc = "off"
    /\ loc = NoLocals
    /\ exp = NoLocals
    /\ now = 0
    /\ sigint = FALSE
    /\ cond = Conditions
    /\ exc = ""
    /\ cyc = [rows |-> 0, lines |-> 0]
    /\ sleepFor = 0
    /\ hist = NoHist
    /\ pin = [count |-> DefaultCount, times |-> <<>>, err |-> FALSE]
    /\ pout = NoLocals

\* The process is started: initialize_database(), then the loop is entered.
Start ==
    /\ pc \in {"off", "stopped", "crashed"}
    /\ fs' = initialize_database(fs)
    /\ pc' = "gw_psutil"
    /\ loc' = NoLocals
    /\ exp' = NoLocals
    /\ cond' = Conditions
    /\ exc' = ""
    /\ cyc' = Snapshot(fs')
    /\ sigint' = FALSE
    /\ sleepFor' = 0
    /\ UNCHANGED <<system, now, hist, pin, pout>>

\* A call of the loop body that reads `fields` of the environment and assigns
\* locals.
Assign(from, to, c, fields, new) ==
    /\ pc = from
    /\ pc' = to
    /\ loc' = new @@ loc
    /\ cond' = Agree(cond, c, fields)
    /\ sigint' = FALSE
    /\ UNCHANGED <<system, fs, exp, now, exc, cyc, sleepFor, hist, pin, pout>>

\* Lines 139-148: the psutil calls, whose results are not used; whatever is
\* raised there is swallowed by the bare except.
GwPsutil == Assign("gw_psutil", "gw_route", Healthy, {}, NoLocals)

\* Lines 150-177, assigned at line 286.
GwRoute ==
    \E c \in cond :
        Assign("gw_route", "timestamp", c, {"route", "fallback"},
               [gateway_ip |-> get_default_gateway_ip(system, c.route, c.fallback)])

\* Line 288.
Timestamp ==
    Assign("timestamp", "router_ip", Healthy, {},
           [timestamp |-> get_current_timestamp(now)])

\* Line 289.
RouterIp ==
    \E c \in cond :
        Assign("router_ip", "router_mac", c, {"route"},
               [router_ip |-> get_router_ip(c.route)])

\* Line 290.
RouterMac ==
    \E c \in cond :
        Assign("router_mac", "ping", c, {"arp"},
               [router_id |-> get_router_mac(loc.router_ip, c.arp)])

\* Line 291.
Ping ==
    \E c \in cond :
        Assign("ping", "signal", c, {"ping_err", "replies"},
               ping_router(DefaultCount, c.replies, PingRaises(system, loc.router_ip, c)))

\* Line 292: an exception get_signal_strength does not catch leaves main(),
\* whose only handler is for KeyboardInterrupt.
Signal ==
    \E c \in cond :
        LET r == get_signal_strength(SignalOutcome(system, c))
        IN  /\ pc = "signal"
            /\ IF r.raised
               THEN /\ pc' = "crashed"
                    /\ exc' = "signal"
                    /\ loc' = NoLocals
               ELSE /\ pc' = "speedtest"
                    /\ exc' = exc
                    /\ loc' = [signal_strength |-> r.value] @@ loc
            /\ cond' = Agree(cond, c, {"signal"})
            /\ sigint' = FALSE
            /\ UNCHANGED <<system, fs, exp, now, cyc, sleepFor, hist, pin, pout>>

\* Line 293.
Speedtest ==
    \E c \in cond :
        LET r == get_speedtest(c.speed)
        IN  Assign("speedtest", "isp", c, {"speed"},
                   [download_speed |-> r.download, upload_speed |-> r.upload])

\* Line 294.
Isp ==
    \E c \in cond :
        Assign("isp", "gw_reach", c, {"isp"}, [isp_name |-> get_isp_name(c.isp)])

\* Line 295.
GwReach ==
    \E c \in cond :
        Assign("gw_reach", "interface_ip", c, {"reach_err", "received"},
               [gw_reach |-> check_gateway_reachability(loc.gateway_ip, DefaultCount,
                                                        c.received, c.reach_err)])

\* Line 296.
InterfaceIp ==
    \E c \in cond :
        Assign("interface_ip", "check", c, {"ifip"},
               [interface_ip |-> get_interface_ip(c.ifip)])

\* Lines 297-300 and 302-313: skip the cycle and sleep 50 s, or go on to
\* record it.
Check_fullWait ==
    /\ pc = "check"
    /\ IF PingFailed(loc)
       THEN /\ pc' = "sleep"
            /\ sleepFor' = IntervalSeconds
       ELSE /\ pc' = "log"
            /\ sleepFor' = 0
    /\ sigint' = FALSE
    /\ UNCHANGED <<system, fs, loc, exp, now, cond, exc, cyc, hist, pin, pout>>

Check ==
    /\ pc = "check"
    /\ IF PingFailed(loc)
       THEN /\ pc' = "sleep"
            /\ sleepFor' = BackoffSeconds
       ELSE /\ pc' = "log"
            /\ sleepFor' = 0
    /\ sigint' = FALSE
    /\ UNCHANGED <<system, fs, loc, exp, now, cond, exc, cyc, hist, pin, pout>>

\* The next iteration begins.
NextIteration ==
    /\ pc' = "gw_psutil"
    /\ sleepFor' = 0
    /\ loc' = NoLocals
    /\ cond' = Conditions
    /\ cyc' = Snapshot(fs)
    /\ sigint' = FALSE
    /\ UNCHANGED <<system, fs, exp, now, exc, hist, pin, pout>>

\* Line 299: time.sleep(50) returns; `continue`.
BackoffDone ==
    /\ pc = "sleep"
    /\ sleepFor = BackoffSeconds
    /\ NextIteration

\* Line 315: log_to_db(...).  When the store cannot be written sqlite3 raises,
\* nothing is committed, and the exception leaves main().
LogToDb ==
    \E c \in cond :
        /\ pc = "log"
        /\ Len(StoreRows(fs)) < MaxRows
        /\ IF c.store
           THEN /\ fs' = log_to_db(fs, loc, get_active_interface(c.iface), now)
                /\ pc' = "export"
                /\ exc' = exc
                /\ loc' = loc
           ELSE /\ fs' = fs
                /\ pc' = "crashed"
                /\ exc' = "store"
                /\ loc' = NoLocals
        /\ cond' = Agree(cond, c, {"iface", "store"})
        /\ sigint' = FALSE
        /\ UNCHANGED <<system, exp, now, cyc, sleepFor, hist, pin, pout>>

\* Lines 253-263 of export_to_csv: the existence test of the data file, the
\* SELECT, the existence test of the mirror, open().
ExportOpen ==
    /\ pc = "export"
    /\ IF ~Exists(fs, DB_FILE)
       THEN /\ pc' = "sleep"
            /\ sleepFor' = IntervalSeconds
            /\ UNCHANGED <<fs, exp>>
       ELSE /\ exp' = [file_exists |-> Exists(fs, CSV_FILE),
                       row         |-> LatestRow(fs[DB_FILE])]
            /\ fs' = CsvOpen(fs)
            /\ pc' = "export_write"
            /\ UNCHANGED sleepFor
    /\ sigint' = FALSE
    /\ UNCHANGED <<system, loc, now, cond, exc, cyc, hist, pin, pout>>

\* Lines 264-277: the writes and the with-block closing the file; then line
\* 320, time.sleep(300).
ExportWrite ==
    /\ pc = "export_write"
    /\ fs' = CsvWrite(fs, exp.file_exists, exp.row)
    /\ exp' = NoLocals
    /\ pc' = "sleep"
    /\ sleepFor' = IntervalSeconds
    /\ sigint' = FALSE
    /\ UNCHANGED <<system, loc, now, cond, exc, cyc, hist, pin, pout>>

\* Line 320: time.sleep(300) returns.
WaitDone ==
    /\ pc = "sleep"
    /\ sleepFor = IntervalSeconds
    /\ NextIteration

\* A KeyboardInterrupt is raised in the main thread, at any point of the loop.
\* The handler of line 322 ends main(), except for an interrupt raised inside
\* the try block of lines 139-146, which the bare except of line 147 swallows.
SwallowedAt(p, inside) == p = "gw_psutil" /\ inside

Interrupt ==
    \E inside \in BOOLEAN :
        /\ pc \in LoopPcs
        /\ sigint' = TRUE
        /\ IF SwallowedAt(pc, inside)
           THEN /\ pc' = "gw_route"
                /\ UNCHANGED <<loc, exp, cond, sleepFor>>
           ELSE /\ pc' = "stopped"
                /\ loc' = NoLocals
                /\ exp' = NoLocals
                /\ cond' = Conditions
                /\ sleepFor' = 0
        /\ UNCHANGED <<system, fs, now, exc, cyc, hist, pin, pout>>

\* Time passes while the process runs.
Tick ==
    /\ pc \in LoopPcs
    /\ now < MaxTime
    /\ now' = now + 1
    /\ sigint' = FALSE
    /\ UNCHANGED <<system, fs, pc, loc, exp, cond, exc, cyc, sleepFor, hist, pin, pout>>

Next ==
    \/ Start
    \/ GwPsutil
    \/ GwRoute
    \/ Timestamp
    \/ RouterIp
    \/ RouterMac
    \/ Ping
    \/ Signal
    \/ Speedtest
    \/ Isp
    \/ GwReach
    \/ InterfaceIp
    \/ Check
    \/ BackoffDone
    \/ LogToDb
    \/ ExportOpen
    \/ ExportWrite
    \/ WaitDone
    \/ Interrupt
    \/ Tick

Spec == Init /\ [][Next]_vars

----------------------------------------------------------------------------
\* The store on its own: initialisations and appends in any order.

\* The locals main() passes to log_to_db at line 315 under condition c.
CycleLocals(sys, c, t) ==
    LET gw  == get_default_gateway_ip(sys, c.route, c.fallback)
        rip == get_router_ip(c.route)
        sp  == get_speedtest(c.speed)
    IN  [gateway_ip      |-> gw,
         timestamp       |-> get_current_timestamp(t),
         router_ip       |-> rip,
         router_id       |-> get_router_mac(rip, c.arp),
         signal_strength |-> get_signal_strength(SignalOutcome(sys, c)).value,
         download_speed  |-> sp.download,
         upload_speed    |-> sp.upload,
         isp_name        |-> get_isp_name(c.isp),
         gw_reach        |-> check_gateway_reachability(gw, DefaultCount, c.received,
                                                        c.reach_err),
         interface_ip    |-> get_interface_ip(c.ifip)]
        @@ ping_router(DefaultCount, c.replies, PingRaises(sys, rip, c))

StoreInit ==
    /\ fs' = initialize_database(fs)
    /\ hist' = [before1 |-> hist.before2,
                before2 |-> fs[DB_FILE],
                inits   |-> IF hist.inits = 0 THEN 1 ELSE 2]
    /\ UNCHANGED <<system, pc, loc, exp, now, sigint, cond, exc, cyc, sleepFor, pin, pout>>

StoreAppend ==
    \E c \in {Healthy, Degraded} :
        /\ Exists(fs, DB_FILE)
        /\ fs[DB_FILE].table
        /\ Len(StoreRows(fs)) < MaxRows
        /\ fs' = log_to_db(fs, CycleLocals(system, c, now),
                           get_active_interface(c.iface), now)
        /\ hist' = [hist EXCEPT !.inits = 0]
        /\ UNCHANGED <<system, pc, loc, exp, now, sigint, cond, exc, cyc, sleepFor, pin, pout>>

StoreTick ==
    /\ now < MaxTime
    /\ now' = now + 1
    /\ UNCHANGED <<system, fs, pc, loc, exp, sigint, cond, exc, cyc, sleepFor, hist, pin, pout>>

NextStore ==
    \/ StoreInit
    \/ StoreAppend
    \/ StoreTick

SpecStore == Init /\ [][NextStore]_vars

----------------------------------------------------------------------------
\* ping_router on its own: one probe batch of `count` probes, the replies its
\* output shows, and whether the command raised.

RTTs == {10, 13}

SeqsUpTo(n) == UNION {[1 .. m -> RTTs] : m \in 0 .. n}

PingInputs ==
    UNION { {[count |-> n, times |-> t, err |-> e] : t \in SeqsUpTo(n), e \in BOOLEAN} :
            n \in 1 .. MaxCount }

InitPing ==
    /\ system = "Linux"
    /\ fs = [p \in Paths |-> NoFile]
    /\ pc = "off"
    /\ loc = NoLocals
    /\ exp = NoLocals
    /\ now = 0
    /\ sigint = FALSE
    /\ cond = Conditions
    /\ exc = ""
    /\ cyc = [rows |-> 0, lines |-> 0]
    /\ sleepFor = 0
    /\ hist = NoHist
    /\ pin \in PingInputs
    /\ pout = NoLocals

PingCall ==
    /\ pout = NoLocals
    /\ pout' = ping_router(pin.count, pin.times, pin.err)
    /\ UNCHANGED <<system, fs, pc, loc, exp, now, sigint, cond, exc, cyc, sleepFor, hist, pin>>

NextPing == PingCall

SpecPing == InitPing /\ [][NextPing]_vars

----------------------------------------------------------------------------
\* Properties.

Rows == StoreRows(fs)
Mirror == MirrorLines(fs)
Recorded == pc = "sleep" /\ sleepFor = IntervalSeconds
Skipped == pc = "sleep" /\ sleepFor = BackoffSeconds

\* C1: an iteration that reaches its sleep has added exactly one store row and
\* exactly one mirror row when ping_router returned a latency (it then sleeps
\* the interval), and has added neither when the latency is None (it then
\* sleeps the backoff); and at no point of an iteration has the store or the
\* mirror grown unless the iteration's latency is present.
C1_PersistedIffLatency ==
    /\ Recorded => /\ loc.latency # None
                   /\ Len(Rows) = cyc.rows + 1
                   /\ DataLines(fs) = cyc.lines + 1
    /\ Skipped => /\ loc.latency = None
                  /\ Len(Rows) = cyc.rows
                  /\ DataLines(fs) = cyc.lines
    /\ (pc \in LoopPcs /\ (Len(Rows) # cyc.rows \/ DataLines(fs) # cyc.lines))
           => ("latency" \in DOMAIN loc /\ loc.latency # None)

\* A batch with zero replies that did not raise (packet loss 100, latency None)
\* was skipped after an earlier cycle had been recorded.
C1_Witness ==
    /\ Skipped
    /\ loc.packet_loss = Some(Rat(100, 1))
    /\ Len(Rows) = 1
    /\ DataLines(fs) = 1

\* C2: the mirror never holds more data rows than the store holds rows, and
\* while main() sleeps the interval after log_to_db and export_to_csv the
\* mirror's last line is the CSV form of the row appended last, which carries
\* the highest id.
C2_MirrorTracksStore ==
    /\ DataLines(fs) <= Len(Rows)
    /\ Recorded =>
           /\ Rows # <<>>
           /\ Mirror # <<>>
           /\ Mirror[Len(Mirror)] = CsvRow(Rows[Len(Rows)])
           /\ \A i \in 1 .. Len(Rows) : Rows[i].id <= Rows[Len(Rows)].id

\* A second cycle was recorded while the mirror lags the store: an earlier
\* process was interrupted between log_to_db and export_to_csv.
C2_Witness ==
    /\ Recorded
    /\ Len(Rows) = 2
    /\ DataLines(fs) = 1

\* C5: from the test of line 297 with the latency absent, main() (unless it is
\* interrupted) goes to the 50 s sleep without touching a file; from that sleep
\* it goes (unless interrupted) to the first call of a new iteration, again
\* without touching a file; and a 300 s sleep is entered only by an iteration
\* whose latency is present and which has added its row to the store.
C5_SkipBacksOff ==
    [][ /\ (pc = "check" /\ loc.latency = None /\ pc' \notin {"check", "stopped"})
            => (pc' = "sleep" /\ sleepFor' = BackoffSeconds /\ fs' = fs)
        /\ (Skipped /\ pc' \notin {"sleep", "stopped"})
            => (pc' = "gw_psutil" /\ loc' = NoLocals /\ fs' = fs)
        /\ (sleepFor' = IntervalSeconds /\ sleepFor # IntervalSeconds)
            => (loc.latency # None /\ Len(StoreRows(fs')) = cyc.rows + 1)
      ]_vars

\* The backoff sleep of a skipped iteration that followed a recorded one.
C5_Witness ==
    /\ Skipped
    /\ loc.latency = None
    /\ cyc.rows = 1
    /\ Len(Rows) = 1

\* C8: every step leaves the rows already in the store as they are, adds at
\* most one row, and gives a row it adds an id greater than every id in the
\* store.
C8_AppendOnly ==
    [][ LET old == StoreRows(fs)
            new == StoreRows(fs')
        IN  /\ Len(new) \in {Len(old), Len(old) + 1}
            /\ SubSeq(new, 1, Len(old)) = old
            /\ Len(new) = Len(old) + 1
                   => \A i \in 1 .. Len(old) : old[i].id < new[Len(new)].id
      ]_vars

\* A process was started on a store of two rows (its backup holds both).
C8_Witness ==
    /\ Len(Rows) = 2
    /\ Exists(fs, BACKUP_FILE)
    /\ Len(fs[BACKUP_FILE].rows) = 2
    /\ pc = "gw_psutil"

\* C6 as claimed: once a KeyboardInterrupt has been raised in the loop, main()
\* has ended.
C6_InterruptStops == sigint => pc = "stopped"

\* C7 as claimed: main() is ended by an exception only when the store could
\* not be written.
C7_OnlyStoreFailureEndsLoop == pc = "crashed" => exc = "store"

\* C9 as claimed: a mirror that has lines has the header as its first line and
\* nowhere else.
C9_OneHeaderFirst ==
    Mirror # <<>> =>
        /\ Mirror[1] = CsvHeader
        /\ \A i \in 2 .. Len(Mirror) : Mirror[i] # CsvHeader

\* C10 as claimed: the date and time of the row log_to_db has just written are
\* the timestamp main() took at line 288.
C10_StoredTimeIsCycleStart ==
    pc = "export" =>
        Rows[Len(Rows)].date \o " " \o Rows[Len(Rows)].time = loc.timestamp

----------------------------------------------------------------------------
\* Properties of the store specification.

BackupFiles(f) == {p \in Paths \ {DB_FILE, CSV_FILE} : Exists(f, p)}

TwiceInARow == hist.inits = 2 /\ hist.before1 # NoFile

\* C3 as claimed: after two initialisations in a row of an existing data file
\* the one backup file is the data file as it was before the first of them.
C3_BackupIsFirstState ==
    TwiceInARow => (BackupFiles(fs) = {BACKUP_FILE} /\ fs[BACKUP_FILE] = hist.before1)

\* C3 as amended: after two initialisations in a row of an existing data file
\* the one backup file is the data file as the first of them left it: the rows
\* and the id counter it had before the first, with the table new_probe_logs
\* present; it is the file as it was before the first when that file already
\* held the table.
C3_BackupIsSecondState ==
    TwiceInARow =>
        /\ BackupFiles(fs) = {BACKUP_FILE}
        /\ fs[BACKUP_FILE] = hist.before2
        /\ fs[BACKUP_FILE] = [hist.before1 EXCEPT !.table = TRUE]
        /\ hist.before1.table => fs[BACKUP_FILE] = hist.before1

\* Two initialisations in a row of a data file that holds a row.
C3_Witness ==
    /\ TwiceInARow
    /\ Len(hist.before1.rows) = 1
    /\ fs[BACKUP_FILE] = hist.before1

----------------------------------------------------------------------------
\* Properties of the probe batch specification.

Replies == Len(pin.times)

LossIs(q) ==
    /\ q.n * pin.count = 100 * (pin.count - Replies) * q.d
    /\ 0 <= q.n
    /\ q.n <= 100 * q.d

====
